---- MODULE Spec2Model ----
(***************************************************************************)
(* Model of DatabricksPySparkStepLauncher.step_events_iterator and         *)
(* get_new_events (dagster_databricks/databricks_pyspark_step_launcher.py) *)
(* together with the remote side they observe: the Databricks run state    *)
(* and the pickled event-log file on DBFS.                                 *)
(*                                                                         *)
(* The event log is a sequence of record kinds.  Record i (1-based         *)
(* position) is                                                            *)
(*   "E"  a log record whose dagster_event deserializes to an event; the   *)
(*        event is identified with the record's position i,                *)
(*   "L"  a log record whose dagster_event deserializes to None,           *)
(*   "S"  databricks_step_main.LOGS_COMPLETE, the completion sentinel.     *)
(* Time is counted in poll intervals: one time.sleep(poll_interval_sec)    *)
(* advances the clock by one.                                              *)
(***************************************************************************)
EXTENDS Integers, Sequences, FiniteSets, TLC

\* ------------------------------------------------------------- bounds
MaxLogLen == 3      \* the remote side writes at most this many records
MaxWait == 2        \* max_wait_time_sec, in poll intervals
MaxCalls == 2       \* get_new_events calls made by the stand-alone caller

\* ---------------------------------------------------------- constants
MaxRetries == 3     \* "if cur_retries == 3: raise err"
LogsDone == -1      \* the terminal marker returned when the sentinel is read

Kinds == {"E", "L", "S"}
None == 0

VARIABLES
    log,                \* remote: the records pickled in the events file
    fileState,          \* remote: "absent" | "empty" | "written"
    jobState,           \* remote: "running" | "succeeded" | "failed"
    clock,              \* time.time() - start
    pc,                 \* position of the local control flow
    done,               \* step_events_iterator: done
    processed_records,  \* step_events_iterator: processed_records
    new_events,         \* step_events_iterator: new_events still to be yielded
    pending,            \* exception in flight while the finally block runs
    outcome,            \* how the iterator (or the stand-alone call) ended
    gne_offset,         \* get_new_events: its parameter processed_records
    cur_retries,        \* get_new_events: cur_retries
    err,                \* get_new_events: err (number of the failed attempt)
    yielded,            \* events the caller received, in order
    emitted,            \* records passed to log.dagster_handler.emit_dagster_record
    raised,             \* the exception get_new_events raised (attempt number)
    answer,             \* how the last read_file-and-scan attempt went
    polls,              \* number of poll_run_state calls made
    cycles,             \* number of get_new_events calls made
    lpc,                \* position of launch_step
    wait_for_logs,      \* self.wait_for_logs
    databricks_run_id,  \* launch_step: databricks_run_id (None before submit_run returned)
    uploads,            \* paths given to put_file, in call order
    submits,            \* number of submit_run calls made
    log_retrievals,     \* number of _log_logs_from_cluster calls made
    retrieved,          \* what retrieve_logs_for_run_id returned
    launch_outcome,     \* how launch_step ended
    path_args,          \* arguments of the path functions
    path_out,           \* their results
    resource_config,    \* context.resource_config given to the launcher's constructor
    launcher,           \* what the constructor produced
    databricks_config,  \* DatabricksConfig: self.storage and self.secrets
    runtime             \* DatabricksConfig.setup: storage set up, names exported, outcome

vars == <<log, fileState, jobState, clock, pc, done, processed_records,
          new_events, pending, outcome, gne_offset, cur_retries, err,
          yielded, emitted, raised, answer, polls, cycles,
          lpc, wait_for_logs, databricks_run_id, uploads, submits,
          log_retrievals, retrieved, launch_outcome, path_args, path_out,
          resource_config, launcher, databricks_config, runtime>>

configVars == <<resource_config, launcher, databricks_config, runtime>>
launchVars == <<lpc, wait_for_logs, databricks_run_id, uploads, submits,
                log_retrievals, retrieved, launch_outcome, path_args, path_out>>
remoteVars == <<log, fileState, jobState>>
iterVars == <<clock, pc, done, processed_records, new_events, pending, outcome,
              gne_offset, cur_retries, err, yielded, emitted, raised, answer,
              polls, cycles>>

Min(a, b) == IF a < b THEN a ELSE b
Max(a, b) == IF a > b THEN a ELSE b

\* ------------------------------------------------ pure parts of the code

\* mutant: a negative offset is clamped to the start of the list
PySliceStart_Clamp(n, k) == Min(IF k < 0 THEN 0 ELSE k, n)

\* mutant: the list is not sliced at the offset
PySliceStart_NoSlice(n, k) == 0

\* Python's lst[k:] : the number of leading elements the slice drops.
PySliceStart(n, k) == IF k < 0 THEN Max(n + k, 0) ELSE Min(k, n)

\* mutant: every record counts as carrying an event
dagster_event_NoFilter(records, i) == i

\* deserialize_value(getattr(record, DAGSTER_META_KEY)["dagster_event"])
dagster_event(records, i) == IF records[i] = "E" THEN i ELSE None

\* The for-loop of get_new_events over positions i..n of the unpickled list,
\* having collected events ev and emitted em so far.  stop is the position
\* at which an exception is raised before the record is emitted (0: nowhere).
RECURSIVE ScanLoop(_, _, _, _, _, _)
ScanLoop(records, i, ev, em, k, stop) ==
    IF i > Len(records)
    THEN [kind |-> "return", events |-> ev, emit |-> em,
          offset |-> k + (Len(records) - PySliceStart(Len(records), k))]
    ELSE IF records[i] = "S"
    THEN [kind |-> "return", events |-> ev, emit |-> em, offset |-> LogsDone]
    ELSE IF i = stop
    THEN [kind |-> "raise", events |-> ev, emit |-> em, offset |-> k]
    ELSE ScanLoop(records, i + 1,
                  IF dagster_event(records, i) # None
                  THEN Append(ev, dagster_event(records, i)) ELSE ev,
                  Append(em, i), k, stop)

\* records = pickle.loads(raw_records)[processed_records:] and the loop over it
ScanRecords(records, k, stop) ==
    ScanLoop(records, PySliceStart(Len(records), k) + 1, <<>>, <<>>, k, stop)

\* positions at which the scan started at offset k can raise part-way
ScanStops(records, k) ==
    {j \in 1..Len(records) :
        /\ j > PySliceStart(Len(records), k)
        /\ \A i \in (PySliceStart(Len(records), k) + 1)..j : records[i] # "S"}

\* poll_run_state(client, log, start, run_id, max_wait_time_sec)
poll_run_state(state, elapsed, max_wait) ==
    IF state = "succeeded" THEN "done"
    ELSE IF state = "failed" THEN "JobFailed"
    ELSE IF elapsed > max_wait THEN "JobTimeout"
    ELSE "running"

\* ------------------------------------------------------ the remote side

\* The remote process creates the events file before it has pickled anything.
RemoteCreate ==
    /\ databricks_run_id # None
    /\ fileState = "absent"
    /\ fileState' = "empty"
    /\ UNCHANGED <<log, jobState>>
    /\ UNCHANGED iterVars
    /\ UNCHANGED launchVars
    /\ UNCHANGED configVars

SentinelWritten == \E i \in 1..Len(log) : log[i] = "S"

\* The remote process rewrites the events file with one more record.  Nothing
\* is appended once LOGS_COMPLETE has been written.
RemoteAppend ==
    /\ databricks_run_id # None
    /\ Len(log) < MaxLogLen
    /\ ~SentinelWritten
    /\ \E kind \in Kinds : log' = Append(log, kind)
    /\ fileState' = "written"
    /\ UNCHANGED jobState
    /\ UNCHANGED iterVars
    /\ UNCHANGED launchVars
    /\ UNCHANGED configVars

\* The Databricks run terminates.
JobTerminates ==
    /\ databricks_run_id # None
    /\ jobState = "running"
    /\ jobState' \in {"succeeded", "failed"}
    /\ UNCHANGED <<log, fileState>>
    /\ UNCHANGED iterVars
    /\ UNCHANGED launchVars
    /\ UNCHANGED configVars

\* ------------------------------------------------------ paths on DBFS
\* A string is a sequence of characters; a longer token stands for a run of
\* characters none of which is "[", "]" or "/".

CODE_ZIP_NAME == <<"code.zip">>
PICKLED_CONFIG_FILE_NAME == <<"config.pkl">>
PICKLED_STEP_RUN_REF_FILE_NAME == <<"step_run_ref.pkl">>

RECURSIVE Replace(_, _, _)
\* str.replace(old, new) for a one-character old
Replace(str, old, new) ==
    IF str = <<>> THEN <<>>
    ELSE (IF Head(str) = old THEN new ELSE <<Head(str)>>)
            \o Replace(Tail(str), old, new)

RECURSIVE basename(_)
\* os.path.basename: what follows the last "/"
basename(path) ==
    IF \E i \in 1..Len(path) : path[i] = "/" THEN basename(Tail(path)) ELSE path

RECURSIVE Join(_, _)
\* sep.join(parts)
Join(parts, sep) ==
    IF parts = <<>> THEN <<>>
    ELSE IF Len(parts) = 1 THEN parts[1]
    ELSE parts[1] \o sep \o Join(Tail(parts), sep)

\* mutant: only the opening bracket of the step key is replaced
_dbfs_path_OpenOnly(staging_prefix, run_id, step_key, filename) ==
    <<"dbfs:", "/", "/">>
        \o Join(<<staging_prefix, run_id,
                  Replace(step_key, "[", <<"_", "_">>),
                  basename(filename)>>, <<"/">>)

_dbfs_path(staging_prefix, run_id, step_key, filename) ==
    <<"dbfs:", "/", "/">>
        \o Join(<<staging_prefix, run_id,
                  Replace(Replace(step_key, "[", <<"_", "_">>), "]", <<"_", "_">>),
                  basename(filename)>>, <<"/">>)

_internal_dbfs_path(staging_prefix, run_id, step_key, filename) ==
    <<"/", "dbfs", "/">>
        \o Join(<<staging_prefix, run_id,
                  Replace(Replace(step_key, "[", <<"_", "_">>), "]", <<"_", "_">>),
                  basename(filename)>>, <<"/">>)

_main_file_local_path == <<"/", "site", "/", "databricks_step_main.py">>
_main_file_name == basename(_main_file_local_path)

\* the file names given to _dbfs_path by _upload_artifacts, in call order
UploadFiles == <<_main_file_name, CODE_ZIP_NAME, PICKLED_STEP_RUN_REF_FILE_NAME,
                 PICKLED_CONFIG_FILE_NAME>>

NoPaths == [dbfs |-> <<>>, internal |-> <<>>]

\* the launcher's staging prefix and the run id and step key of the launch
LaunchArgs == [staging_prefix |-> <<"/", "s">>, run_id |-> <<"r">>,
               step_key |-> <<"a", "[", "0", "]">>, filename |-> <<"x.bin">>]

UploadPath(n) ==
    _dbfs_path(path_args.staging_prefix, path_args.run_id, path_args.step_key,
              UploadFiles[n])

\* ------------------------------------------------------- get_new_events

InRead == pc \in {"A_read", "B_read", "call"}

AfterReturn(p) ==
    IF p = "A_read" THEN "A_yield" ELSE IF p = "B_read" THEN "B_yield" ELSE "returned"

\* the caller's call: get_new_events(log, run_id, step_key, processed_records=...)
EnterRead ==
    /\ gne_offset' = processed_records
    /\ cur_retries' = 0
    /\ err' = None
    /\ answer' = "none"
    /\ cycles' = cycles + 1

\* "return events, offset" and the caller's
\* "new_events, processed_records = self.get_new_events(...)"
ReturnFromRead(events, offset, em, ans) ==
    /\ answer' = ans
    /\ new_events' = events
    /\ processed_records' = offset
    /\ emitted' = emitted \o em
    /\ pc' = AfterReturn(pc)
    /\ UNCHANGED <<clock, done, pending, outcome, gne_offset, cur_retries,
                   yielded, raised, polls, cycles>>

\* "if cur_retries == 3"
RetriesExhausted(n) == n = MaxRetries

\* mutant: the first error is kept
LastError_First(old, e) == IF old = None THEN e ELSE old

\* "err = e" in an except clause
LastError(old, e) == e

\* mutant: a failed attempt advances the offset past the records it emitted
OffsetOnRetry_Advance(k, em) == k + Len(em)

\* the offset the next attempt of the same call slices at: the parameter
\* processed_records is not assigned in the loop
OffsetOnRetry(k, em) == k

\* the tail of the while-loop body after an except clause that did not return
RetryOrRaise(e, em, ans) ==
    /\ answer' = ans
    /\ err' = LastError(err, e)
    /\ cur_retries' = cur_retries + 1
    /\ emitted' = emitted \o em
    /\ IF RetriesExhausted(cur_retries + 1)
       THEN /\ raised' = err'
            /\ outcome' = "ReadError"
            /\ pc' = "raised"
       ELSE UNCHANGED <<raised, outcome, pc>>
    /\ gne_offset' = OffsetOnRetry(gne_offset, em)
    /\ UNCHANGED <<clock, done, processed_records, new_events, pending,
                   yielded, polls, cycles>>

\* read_file returns the pickled list; the scan runs to its end or to the sentinel
ReadOk ==
    /\ InRead
    /\ fileState = "written"
    /\ LET r == ScanRecords(log, gne_offset, 0)
       IN  ReturnFromRead(r.events, r.offset, r.emit, "ok")
    /\ err' = err
    /\ UNCHANGED remoteVars
    /\ UNCHANGED launchVars
    /\ UNCHANGED configVars

\* read_file returns no bytes: "if not raw_records: return [], processed_records"
ReadEmpty ==
    /\ InRead
    /\ fileState = "empty"
    /\ ReturnFromRead(<<>>, gne_offset, <<>>, "empty")
    /\ err' = err
    /\ UNCHANGED remoteVars
    /\ UNCHANGED launchVars
    /\ UNCHANGED configVars

\* mutant: the not-found answer is handled like any other exception
ReadNotFound_Retried ==
    /\ InRead
    /\ fileState = "absent"
    /\ RetryOrRaise(cur_retries + 1, <<>>, "not_found")
    /\ UNCHANGED remoteVars
    /\ UNCHANGED launchVars
    /\ UNCHANGED configVars

\* read_file raises HTTPError with error_code RESOURCE_DOES_NOT_EXIST
ReadNotFound ==
    /\ InRead
    /\ fileState = "absent"
    /\ err' = cur_retries + 1
    /\ ReturnFromRead(<<>>, gne_offset, <<>>, "not_found")
    /\ UNCHANGED remoteVars
    /\ UNCHANGED launchVars
    /\ UNCHANGED configVars

\* read_file raises any other exception
ReadFail ==
    /\ InRead
    /\ RetryOrRaise(cur_retries + 1, <<>>, "error")
    /\ UNCHANGED remoteVars
    /\ UNCHANGED launchVars
    /\ UNCHANGED configVars

\* deserialize_value raises on some record of the batch, after the records
\* before it have been emitted
ReadScanFail ==
    /\ InRead
    /\ fileState = "written"
    /\ \E stop \in ScanStops(log, gne_offset) :
          RetryOrRaise(cur_retries + 1, ScanRecords(log, gne_offset, stop).emit,
                       "scan_error")
    /\ UNCHANGED remoteVars
    /\ UNCHANGED launchVars
    /\ UNCHANGED configVars

\* -------------------------------------------------- step_events_iterator

\* phase A: "with raise_execution_interrupts(): ... time.sleep(poll_interval_sec)"
SleepA ==
    /\ pc = "A_sleep"
    /\ clock' = clock + 1
    /\ pc' = "A_poll"
    /\ UNCHANGED <<done, processed_records, new_events, pending, outcome,
                   gne_offset, cur_retries, err, yielded, emitted, raised,
                   answer, polls, cycles>>
    /\ UNCHANGED remoteVars
    /\ UNCHANGED launchVars
    /\ UNCHANGED configVars

\* mutant: the sleep of phase A is inside the try statement, so an interrupt
\* raised out of it still runs the finally clause
Interrupt_SleepInTry ==
    /\ pc \in {"A_sleep", "B_sleep", "A_read", "B_read"}
    /\ IF pc = "A_sleep"
       THEN /\ pending' = "Interrupted"
            /\ EnterRead
            /\ pc' = "A_read"
            /\ UNCHANGED outcome
       ELSE /\ outcome' = "Interrupted"
            /\ pc' = "raised"
            /\ UNCHANGED <<pending, gne_offset, cur_retries, err, answer, cycles>>
    /\ UNCHANGED <<clock, done, processed_records, new_events, yielded, emitted,
                   raised, polls>>
    /\ UNCHANGED remoteVars
    /\ UNCHANGED launchVars
    /\ UNCHANGED configVars

\* "with raise_execution_interrupts()": an execution interrupt is raised out
\* of a sleep or out of get_new_events (it is no Exception, so the except
\* clauses of get_new_events do not catch it)
Interrupt ==
    /\ pc \in {"A_sleep", "B_sleep", "A_read", "B_read"}
    /\ outcome' = "Interrupted"
    /\ pc' = "raised"
    /\ UNCHANGED <<clock, done, processed_records, new_events, pending,
                   gne_offset, cur_retries, err, yielded, emitted, raised,
                   answer, polls, cycles>>
    /\ UNCHANGED remoteVars
    /\ UNCHANGED launchVars
    /\ UNCHANGED configVars

\* mutant: get_new_events is called after the try statement, not in a finally
\* clause, so an exception of poll_run_state propagates at once
TryPoll_NoFinally(result) ==
    /\ done' = (result = "done")
    /\ polls' = polls + 1
    /\ IF result \in {"done", "running"}
       THEN /\ EnterRead
            /\ pc' = "A_read"
            /\ UNCHANGED <<pending, outcome>>
       ELSE /\ pending' = result
            /\ outcome' = result
            /\ pc' = "raised"
            /\ UNCHANGED <<gne_offset, cur_retries, err, answer, cycles>>
    /\ UNCHANGED <<clock, processed_records, new_events, yielded, emitted, raised>>

\* what the try statement does with the result of poll_run_state: the finally
\* clause then calls get_new_events
TryPoll(result) ==
    /\ done' = (result = "done")
    /\ pending' = IF result \in {"done", "running"} THEN "none" ELSE result
    /\ polls' = polls + 1
    /\ EnterRead
    /\ pc' = "A_read"
    /\ UNCHANGED <<clock, processed_records, new_events, outcome, yielded,
                   emitted, raised>>

\* "done = poll_run_state(...)": the status query answers
Poll ==
    /\ pc = "A_poll"
    /\ TryPoll(poll_run_state(jobState, clock, MaxWait))
    /\ UNCHANGED remoteVars
    /\ UNCHANGED launchVars
    /\ UNCHANGED configVars

\* the status query itself raises (the client's request fails, or an
\* execution interrupt arrives during it)
PollRaises ==
    /\ pc = "A_poll"
    /\ \E e \in {"RemoteServiceError", "Interrupted"} : TryPoll(e)
    /\ UNCHANGED remoteVars
    /\ UNCHANGED launchVars
    /\ UNCHANGED configVars

\* "for event in new_events: yield event", in either phase
Yield ==
    /\ pc \in {"A_yield", "B_yield"}
    /\ new_events # <<>>
    /\ yielded' = Append(yielded, Head(new_events))
    /\ new_events' = Tail(new_events)
    /\ UNCHANGED <<clock, pc, done, processed_records, pending, outcome,
                   gne_offset, cur_retries, err, emitted, raised, answer, polls,
                   cycles>>
    /\ UNCHANGED remoteVars
    /\ UNCHANGED launchVars
    /\ UNCHANGED configVars

\* mutant: the finally clause ends the tick without re-raising (as a return
\* or continue inside it would)
EndFinally_Swallow ==
    /\ pc = "A_yield"
    /\ new_events = <<>>
    /\ pc' = IF done THEN "B_check" ELSE "A_sleep"
    /\ UNCHANGED <<clock, done, processed_records, new_events, pending, outcome,
                   gne_offset, cur_retries, err, yielded, emitted, raised,
                   answer, polls, cycles>>
    /\ UNCHANGED remoteVars
    /\ UNCHANGED launchVars
    /\ UNCHANGED configVars

\* the finally clause of phase A is finished: the exception in flight, if any,
\* propagates; otherwise the "while not done" test is made
EndFinally ==
    /\ pc = "A_yield"
    /\ new_events = <<>>
    /\ IF pending # "none"
       THEN /\ outcome' = pending
            /\ pc' = "raised"
       ELSE /\ outcome' = outcome
            /\ pc' = IF done THEN "B_check" ELSE "A_sleep"
    /\ UNCHANGED <<clock, done, processed_records, new_events, pending,
                   gne_offset, cur_retries, err, yielded, emitted, raised,
                   answer, polls, cycles>>
    /\ UNCHANGED remoteVars
    /\ UNCHANGED launchVars
    /\ UNCHANGED configVars

\* mutant: phase B measures its wait from its own start (in phase A every
\* tick sleeps once and polls once, so phase B starts at elapsed = polls)
LogsTimedOut_OwnStart(elapsed, max_wait) == elapsed - polls > max_wait

\* mutant: the deadline is compared one poll interval late
LogsTimedOut_Late(elapsed, max_wait) == elapsed > max_wait + 1

\* "if time.time() - start > self.databricks_runner.max_wait_time_sec"
LogsTimedOut(elapsed, max_wait) == elapsed > max_wait

\* mutant: the loop test of phase B is made after its body (do-while)
LogsComplete_TestedAfter(p) == p = LogsDone /\ cycles > polls

\* mutant: the iterator does not wait for the sentinel after the run completed
LogsComplete_NoWait(p) == TRUE

\* the negation of the loop test "while processed_records != -1"
LogsComplete(p) == p = LogsDone

\* phase B: the "while processed_records != -1" test, the deadline check and
\* the call of get_new_events
CheckB ==
    /\ pc = "B_check"
    /\ IF LogsComplete(processed_records)
       THEN /\ outcome' = "ended"
            /\ pc' = "done"
            /\ UNCHANGED <<gne_offset, cur_retries, err, answer, cycles>>
       ELSE IF LogsTimedOut(clock, MaxWait)
       THEN /\ outcome' = "LogsTimeout"
            /\ pc' = "raised"
            /\ UNCHANGED <<gne_offset, cur_retries, err, answer, cycles>>
       ELSE /\ outcome' = outcome
            /\ pc' = "B_read"
            /\ EnterRead
    /\ UNCHANGED <<clock, done, processed_records, new_events, pending,
                   yielded, emitted, raised, polls>>
    /\ UNCHANGED remoteVars
    /\ UNCHANGED launchVars
    /\ UNCHANGED configVars

\* phase B: the batch is yielded; "time.sleep(poll_interval_sec)" begins
EndYieldB ==
    /\ pc = "B_yield"
    /\ new_events = <<>>
    /\ pc' = "B_sleep"
    /\ UNCHANGED <<clock, done, processed_records, new_events, pending, outcome,
                   gne_offset, cur_retries, err, yielded, emitted, raised,
                   answer, polls, cycles>>
    /\ UNCHANGED remoteVars
    /\ UNCHANGED launchVars
    /\ UNCHANGED configVars

\* phase B: the sleep ends
SleepB ==
    /\ pc = "B_sleep"
    /\ clock' = clock + 1
    /\ pc' = "B_check"
    /\ UNCHANGED <<done, processed_records, new_events, pending, outcome,
                   gne_offset, cur_retries, err, yielded, emitted, raised,
                   answer, polls, cycles>>
    /\ UNCHANGED remoteVars
    /\ UNCHANGED launchVars
    /\ UNCHANGED configVars

\* ------------------------------------------------------- specifications

\* the state in which step_events_iterator starts its first sleep
\* ------------------------------------------- construction of the launcher
\* context.resource_config is a function from the names of the entries given
\* to their values; an entry not given reaches __init__ as None.

pipeline_path == "local_pipeline_package_path"
job_path == "local_dagster_job_package_path"

\* "x is not None" for the keyword argument named key
IsNotNone(cfg, key) == key \in DOMAIN cfg

\* the truth value of the keyword argument named key
Truthy(cfg, key) == key \in DOMAIN cfg /\ cfg[key] # <<>>

\* str.startswith for a one-character prefix
startswith(str, c) == str # <<>> /\ Head(str) = c

Rejected(message) == [error |-> message]

NotConstructed == [error |-> "not constructed"]

\* DatabricksPySparkStepLauncher(**context.resource_config)
DatabricksPySparkStepLauncher(cfg) ==
    IF ~(IsNotNone(cfg, job_path) \/ IsNotNone(cfg, pipeline_path))
    THEN Rejected("Missing config")
    ELSE IF ~(~IsNotNone(cfg, job_path) \/ Truthy(cfg, pipeline_path))
    THEN Rejected("Error in config")
    ELSE IF ~(Truthy(cfg, pipeline_path) \/ IsNotNone(cfg, job_path))
    THEN Rejected("local_dagster_job_package_path is not a str")
    ELSE IF ~startswith(cfg.staging_prefix, "/")
    THEN Rejected("staging_prefix must be an absolute path")
    ELSE [error |-> "none",
          local_dagster_job_package_path |->
              IF Truthy(cfg, pipeline_path) THEN cfg[pipeline_path]
              ELSE cfg[job_path],
          staging_prefix |-> cfg.staging_prefix]

\* the constructor is called with the resource config
Construct ==
    /\ lpc = "new"
    /\ launcher' = DatabricksPySparkStepLauncher(resource_config)
    /\ lpc' = IF launcher'.error = "none" THEN "constructed" ELSE "rejected"
    /\ UNCHANGED <<resource_config, databricks_config, runtime>>
    /\ UNCHANGED <<wait_for_logs, databricks_run_id, uploads, submits,
                   log_retrievals, retrieved, launch_outcome, path_args, path_out>>
    /\ UNCHANGED iterVars
    /\ UNCHANGED remoteVars

\* ------------------------------------------------- DatabricksConfig.setup
\* self.storage is modelled by the set of its keys, self.secrets by the
\* sequence of the names of its entries.

\* mutant: the two tests of setup_storage are independent if statements
setup_storage_Both(storage) ==
    (IF "s3" \in storage THEN <<"s3">> ELSE <<>>)
        \o (IF "adls2" \in storage THEN <<"adls2">> ELSE <<>>)

\* setup_storage: the variants it sets up (none: it raises)
setup_storage(storage) ==
    IF "s3" \in storage THEN <<"s3">>
    ELSE IF "adls2" \in storage THEN <<"adls2">>
    ELSE <<>>

NotSetUp == [storage |-> <<>>, environ |-> <<>>, outcome |-> "none"]

ConfigRest == <<wait_for_logs, databricks_run_id, uploads, submits,
                log_retrievals, retrieved, launch_outcome, path_args, path_out,
                resource_config, launcher, databricks_config>>

\* setup: self.setup_storage(dbutils, sc)
SetupStorage ==
    /\ lpc = "setup_storage"
    /\ IF setup_storage(databricks_config.storage) = <<>>
       THEN /\ runtime' = [runtime EXCEPT !.outcome = "NoValidStorage"]
            /\ lpc' = "failed"
       ELSE /\ runtime' = [runtime EXCEPT
                              !.storage = setup_storage(databricks_config.storage)]
            /\ lpc' = "setup_environment"
    /\ UNCHANGED ConfigRest
    /\ UNCHANGED iterVars
    /\ UNCHANGED remoteVars

\* dbutils.secrets.get raises in setup_s3_storage or setup_adls2_storage
StorageSecretFails ==
    /\ lpc = "setup_storage"
    /\ setup_storage(databricks_config.storage) # <<>>
    /\ runtime' = [runtime EXCEPT !.outcome = "SecretError"]
    /\ lpc' = "failed"
    /\ UNCHANGED ConfigRest
    /\ UNCHANGED iterVars
    /\ UNCHANGED remoteVars

\* setup_environment: one pass of "for secret in self.secrets", or its end
ExportSecret ==
    /\ lpc = "setup_environment"
    /\ IF Len(runtime.environ) < Len(databricks_config.secrets)
       THEN /\ runtime' = [runtime EXCEPT !.environ =
                    Append(@, databricks_config.secrets[Len(runtime.environ) + 1])]
            /\ UNCHANGED lpc
       ELSE /\ runtime' = [runtime EXCEPT !.outcome = "ok"]
            /\ lpc' = "set_up"
    /\ UNCHANGED ConfigRest
    /\ UNCHANGED iterVars
    /\ UNCHANGED remoteVars

\* dbutils.secrets.get raises in setup_environment
EnvironmentSecretFails ==
    /\ lpc = "setup_environment"
    /\ Len(runtime.environ) < Len(databricks_config.secrets)
    /\ runtime' = [runtime EXCEPT !.outcome = "SecretError"]
    /\ lpc' = "failed"
    /\ UNCHANGED ConfigRest
    /\ UNCHANGED iterVars
    /\ UNCHANGED remoteVars

\* the launcher of the launch under way and the config it uploads
Configured ==
    /\ resource_config = [k \in {pipeline_path, "staging_prefix"} |->
                             IF k = pipeline_path THEN <<"/", "p">>
                             ELSE LaunchArgs.staging_prefix]
    /\ launcher = DatabricksPySparkStepLauncher(resource_config)
    /\ databricks_config = [storage |-> {"s3"}, secrets |-> <<>>]
    /\ runtime = NotSetUp

\* ----------------------------------------------------------- launch_step

LaunchRest == <<wait_for_logs, path_args, path_out>>

\* _upload_artifacts: the next put_file call succeeds
Upload ==
    /\ lpc = "upload"
    /\ uploads' = Append(uploads, UploadPath(Len(uploads) + 1))
    /\ lpc' = IF Len(uploads) + 1 = Len(UploadFiles) THEN "submit" ELSE "upload"
    /\ UNCHANGED <<databricks_run_id, submits, log_retrievals, retrieved,
                   launch_outcome, LaunchRest>>
    /\ UNCHANGED iterVars
    /\ UNCHANGED remoteVars
    /\ UNCHANGED configVars

\* mutant: a failed upload is skipped and the launch goes on
UploadFails_Skipped ==
    /\ lpc = "upload"
    /\ lpc' = "submit"
    /\ UNCHANGED <<uploads, databricks_run_id, submits, log_retrievals,
                   retrieved, launch_outcome, LaunchRest>>
    /\ UNCHANGED iterVars
    /\ UNCHANGED remoteVars
    /\ UNCHANGED configVars

\* _upload_artifacts: the next put_file call raises; nothing in launch_step
\* catches it
UploadFails ==
    /\ lpc = "upload"
    /\ lpc' = "ended"
    /\ launch_outcome' = "UploadError"
    /\ UNCHANGED <<uploads, databricks_run_id, submits, log_retrievals,
                   retrieved, LaunchRest>>
    /\ UNCHANGED iterVars
    /\ UNCHANGED remoteVars
    /\ UNCHANGED configVars

\* submit_run returns the run id; the events iterator is started
Submit ==
    /\ lpc = "submit"
    /\ submits' = submits + 1
    /\ databricks_run_id' = 1
    /\ lpc' = "iterating"
    /\ pc' = "A_sleep"
    /\ UNCHANGED <<uploads, log_retrievals, retrieved, launch_outcome, LaunchRest>>
    /\ UNCHANGED <<clock, done, processed_records, new_events, pending, outcome,
                   gne_offset, cur_retries, err, yielded, emitted, raised,
                   answer, polls, cycles>>
    /\ UNCHANGED remoteVars
    /\ UNCHANGED configVars

\* mutant: a failed submission is tried again
SubmitFails_Retried ==
    /\ lpc = "submit"
    /\ submits' = submits + 1
    /\ IF submits' < MaxRetries
       THEN UNCHANGED <<lpc, launch_outcome>>
       ELSE lpc' = "ended" /\ launch_outcome' = "SubmissionError"
    /\ UNCHANGED <<uploads, databricks_run_id, log_retrievals, retrieved, LaunchRest>>
    /\ UNCHANGED iterVars
    /\ UNCHANGED remoteVars
    /\ UNCHANGED configVars

\* submit_run raises; nothing in launch_step catches it
SubmitFails ==
    /\ lpc = "submit"
    /\ submits' = submits + 1
    /\ lpc' = "ended"
    /\ launch_outcome' = "SubmissionError"
    /\ UNCHANGED <<uploads, databricks_run_id, log_retrievals, retrieved, LaunchRest>>
    /\ UNCHANGED iterVars
    /\ UNCHANGED remoteVars
    /\ UNCHANGED configVars

\* what retrieve_logs_for_run_id returns: None when the logs could not be
\* fetched, the pair (stdout, stderr) otherwise
RetrieveResults == {"None", "logs"}

\* mutant: the result is unpacked without the test for None
_log_logs_from_cluster_NoTest(logs) ==
    IF logs = "None" THEN "TypeError" ELSE "returned"

\* _log_logs_from_cluster, given what retrieve_logs_for_run_id returned
_log_logs_from_cluster(logs) ==
    IF logs = "None" THEN "returned" ELSE "returned"

IteratorLeft == lpc = "iterating" /\ pc \in {"done", "raised"}

\* mutant: the retrieval is in an else clause, not in a finally clause
LogLogs_OnSuccessOnly ==
    /\ IteratorLeft
    /\ wait_for_logs
    /\ lpc' = "ended"
    /\ IF pc = "done"
       THEN \E logs \in RetrieveResults :
               /\ retrieved' = logs
               /\ log_retrievals' = log_retrievals + 1
               /\ launch_outcome' = outcome
       ELSE /\ launch_outcome' = outcome
            /\ UNCHANGED <<retrieved, log_retrievals>>
    /\ UNCHANGED <<uploads, databricks_run_id, submits, LaunchRest>>
    /\ UNCHANGED iterVars
    /\ UNCHANGED remoteVars
    /\ UNCHANGED configVars

\* the finally clause of launch_step with wait_for_logs set: an exception
\* raised in it replaces the one in flight
LogLogs ==
    /\ IteratorLeft
    /\ wait_for_logs
    /\ lpc' = "ended"
    /\ \E logs \in RetrieveResults :
          /\ retrieved' = logs
          /\ log_retrievals' = log_retrievals + 1
          /\ launch_outcome' = IF _log_logs_from_cluster(logs) = "returned"
                               THEN outcome
                               ELSE _log_logs_from_cluster(logs)
    /\ UNCHANGED <<uploads, databricks_run_id, submits, LaunchRest>>
    /\ UNCHANGED iterVars
    /\ UNCHANGED remoteVars
    /\ UNCHANGED configVars

\* the finally clause of launch_step with wait_for_logs not set
NoLogLogs ==
    /\ IteratorLeft
    /\ ~wait_for_logs
    /\ lpc' = "ended"
    /\ launch_outcome' = outcome
    /\ UNCHANGED <<uploads, databricks_run_id, submits, log_retrievals,
                   retrieved, LaunchRest>>
    /\ UNCHANGED iterVars
    /\ UNCHANGED remoteVars
    /\ UNCHANGED configVars

\* _dbfs_path and _internal_dbfs_path are applied to the same arguments
RenderPaths ==
    /\ lpc = "paths"
    /\ path_out = NoPaths
    /\ path_out' = [dbfs |-> _dbfs_path(path_args.staging_prefix, path_args.run_id,
                                       path_args.step_key, path_args.filename),
                    internal |-> _internal_dbfs_path(path_args.staging_prefix,
                                       path_args.run_id, path_args.step_key,
                                       path_args.filename)]
    /\ lpc' = "rendered"
    /\ UNCHANGED <<wait_for_logs, databricks_run_id, uploads, submits,
                   log_retrievals, retrieved, launch_outcome, path_args>>
    /\ UNCHANGED iterVars
    /\ UNCHANGED remoteVars
    /\ UNCHANGED configVars

AllUploads == [n \in 1..Len(UploadFiles) |->
                  _dbfs_path(LaunchArgs.staging_prefix, LaunchArgs.run_id,
                            LaunchArgs.step_key, UploadFiles[n])]

\* the launch once submit_run has returned
Submitted ==
    /\ lpc = "iterating"
    /\ wait_for_logs = FALSE
    /\ databricks_run_id = 1
    /\ uploads = AllUploads
    /\ submits = 1
    /\ log_retrievals = 0
    /\ retrieved = "none"
    /\ launch_outcome = "none"
    /\ path_args = LaunchArgs
    /\ path_out = NoPaths
    /\ Configured

Init ==
    /\ log = <<>>
    /\ fileState = "absent"
    /\ jobState = "running"
    /\ clock = 0
    /\ pc = "A_sleep"
    /\ done = FALSE
    /\ processed_records = 0
    /\ new_events = <<>>
    /\ pending = "none"
    /\ outcome = "none"
    /\ gne_offset = 0
    /\ cur_retries = 0
    /\ err = None
    /\ yielded = <<>>
    /\ emitted = <<>>
    /\ raised = None
    /\ answer = "none"
    /\ polls = 0
    /\ cycles = 0
    /\ Submitted

Next ==
    \/ RemoteCreate
    \/ RemoteAppend
    \/ JobTerminates
    \/ SleepA
    \/ Interrupt
    \/ Poll
    \/ PollRaises
    \/ ReadOk
    \/ ReadEmpty
    \/ ReadNotFound
    \/ ReadFail
    \/ ReadScanFail
    \/ Yield
    \/ EndFinally
    \/ CheckB
    \/ EndYieldB
    \/ SleepB

Spec == Init /\ [][Next]_vars

\* the steps the sequential code takes on its own once the call it waits for
\* (sleep, status query, read_file) returns and the consumer asks for the
\* next event
IteratorStep ==
    \/ SleepA
    \/ Poll
    \/ ReadOk
    \/ ReadEmpty
    \/ ReadNotFound
    \/ Yield
    \/ EndFinally
    \/ CheckB
    \/ EndYieldB
    \/ SleepB

\* the iterator does not stop in the middle: a step it can take is taken
FairSpec == Spec /\ WF_vars(IteratorStep)

\* ----------------------------------- get_new_events called on its own

\* every list of records of at most MaxLogLen records
AllLogs == UNION {[1..n -> Kinds] : n \in 0..MaxLogLen}

\* a caller passes the offset it got back to the next call
CallAgain ==
    /\ pc = "returned"
    /\ cycles < MaxCalls
    /\ EnterRead
    /\ pc' = "call"
    /\ UNCHANGED <<clock, done, processed_records, new_events, pending, outcome,
                   yielded, emitted, raised, polls>>
    /\ UNCHANGED remoteVars
    /\ UNCHANGED launchVars
    /\ UNCHANGED configVars

\* get_new_events has just been called with offset processed_records on an
\* events file that does not change during the calls
InitRead ==
    /\ log \in AllLogs
    /\ fileState \in IF log = <<>> THEN {"absent", "empty", "written"} ELSE {"written"}
    /\ jobState = "running"
    /\ clock = 0
    /\ pc = "call"
    /\ done = FALSE
    /\ processed_records \in LogsDone..Len(log)
    /\ new_events = <<>>
    /\ pending = "none"
    /\ outcome = "none"
    /\ gne_offset = processed_records
    /\ cur_retries = 0
    /\ err = None
    /\ yielded = <<>>
    /\ emitted = <<>>
    /\ raised = None
    /\ answer = "none"
    /\ polls = 0
    /\ cycles = 1
    /\ Submitted

NextRead ==
    \/ ReadOk
    \/ ReadEmpty
    \/ ReadNotFound
    \/ ReadFail
    \/ ReadScanFail
    \/ CallAgain

SpecRead == InitRead /\ [][NextRead]_vars

\* launch_step from its call: nothing uploaded, nothing submitted
InitLaunch ==
    /\ log = <<>>
    /\ fileState = "absent"
    /\ jobState = "running"
    /\ clock = 0
    /\ pc = "idle"
    /\ done = FALSE
    /\ processed_records = 0
    /\ new_events = <<>>
    /\ pending = "none"
    /\ outcome = "none"
    /\ gne_offset = 0
    /\ cur_retries = 0
    /\ err = None
    /\ yielded = <<>>
    /\ emitted = <<>>
    /\ raised = None
    /\ answer = "none"
    /\ polls = 0
    /\ cycles = 0
    /\ lpc = "upload"
    /\ wait_for_logs \in BOOLEAN
    /\ databricks_run_id = None
    /\ uploads = <<>>
    /\ submits = 0
    /\ log_retrievals = 0
    /\ retrieved = "none"
    /\ launch_outcome = "none"
    /\ path_args = LaunchArgs
    /\ path_out = NoPaths
    /\ Configured

NextLaunch ==
    \/ Upload
    \/ UploadFails
    \/ Submit
    \/ SubmitFails
    \/ LogLogs
    \/ NoLogLogs
    \/ Next

SpecLaunch == InitLaunch /\ [][NextLaunch]_vars

\* all sequences over S of length at most n
SeqsUpTo(S, n) == UNION {[1..k -> S] : k \in 0..n}

MaxKeyLen == 4

StagingPrefixes == {<<"/", "s">>, <<"/", "s", "/", "t">>}
RunIds == {<<"r">>}
StepKeys == SeqsUpTo({"a", "0", "[", "]"}, MaxKeyLen)
FileNames == {<<"x.bin">>, <<"d", "/", "x.bin">>, <<"/", "d", "/", "e", "/", "y">>}

\* the path functions on arbitrary arguments
InitPath ==
    /\ log = <<>>
    /\ fileState = "absent"
    /\ jobState = "running"
    /\ clock = 0
    /\ pc = "idle"
    /\ done = FALSE
    /\ processed_records = 0
    /\ new_events = <<>>
    /\ pending = "none"
    /\ outcome = "none"
    /\ gne_offset = 0
    /\ cur_retries = 0
    /\ err = None
    /\ yielded = <<>>
    /\ emitted = <<>>
    /\ raised = None
    /\ answer = "none"
    /\ polls = 0
    /\ cycles = 0
    /\ lpc = "paths"
    /\ wait_for_logs = FALSE
    /\ databricks_run_id = None
    /\ uploads = <<>>
    /\ submits = 0
    /\ log_retrievals = 0
    /\ retrieved = "none"
    /\ launch_outcome = "none"
    /\ path_args \in [staging_prefix : StagingPrefixes, run_id : RunIds,
                      step_key : StepKeys, filename : FileNames]
    /\ path_out = NoPaths
    /\ Configured

NextPath == RenderPaths

SpecPath == InitPath /\ [][NextPath]_vars

\* the values a package path entry of the resource config can have
PackagePaths == {<<>>, <<"/", "p">>, <<"/", "q">>}

AllResourceConfigs ==
    UNION {{[k \in keys \cup {"staging_prefix"} |->
                IF k = "staging_prefix" THEN sp ELSE f[k]] :
              f \in [keys -> PackagePaths], sp \in {<<"/", "s">>, <<"s">>}} :
           keys \in SUBSET {pipeline_path, job_path}}

\* the launcher about to be constructed from any resource config
InitNew ==
    /\ log = <<>>
    /\ fileState = "absent"
    /\ jobState = "running"
    /\ clock = 0
    /\ pc = "idle"
    /\ done = FALSE
    /\ processed_records = 0
    /\ new_events = <<>>
    /\ pending = "none"
    /\ outcome = "none"
    /\ gne_offset = 0
    /\ cur_retries = 0
    /\ err = None
    /\ yielded = <<>>
    /\ emitted = <<>>
    /\ raised = None
    /\ answer = "none"
    /\ polls = 0
    /\ cycles = 0
    /\ lpc = "new"
    /\ wait_for_logs \in BOOLEAN
    /\ databricks_run_id = None
    /\ uploads = <<>>
    /\ submits = 0
    /\ log_retrievals = 0
    /\ retrieved = "none"
    /\ launch_outcome = "none"
    /\ path_args = LaunchArgs
    /\ path_out = NoPaths
    /\ resource_config \in AllResourceConfigs
    /\ launcher = NotConstructed
    /\ databricks_config = [storage |-> {"s3"}, secrets |-> <<>>]
    /\ runtime = NotSetUp

NextNew == Construct

SpecNew == InitNew /\ [][NextNew]_vars

MaxSecrets == 2

StorageKeys == {"s3", "adls2", "gcs"}
SecretNames == {"A", "B"}

\* DatabricksConfig.setup about to run on any storage and secrets
InitSetup ==
    /\ log = <<>>
    /\ fileState = "absent"
    /\ jobState = "running"
    /\ clock = 0
    /\ pc = "idle"
    /\ done = FALSE
    /\ processed_records = 0
    /\ new_events = <<>>
    /\ pending = "none"
    /\ outcome = "none"
    /\ gne_offset = 0
    /\ cur_retries = 0
    /\ err = None
    /\ yielded = <<>>
    /\ emitted = <<>>
    /\ raised = None
    /\ answer = "none"
    /\ polls = 0
    /\ cycles = 0
    /\ lpc = "setup_storage"
    /\ wait_for_logs = FALSE
    /\ databricks_run_id = 1
    /\ uploads = AllUploads
    /\ submits = 1
    /\ log_retrievals = 0
    /\ retrieved = "none"
    /\ launch_outcome = "none"
    /\ path_args = LaunchArgs
    /\ path_out = NoPaths
    /\ resource_config = [k \in {pipeline_path, "staging_prefix"} |->
                             IF k = pipeline_path THEN <<"/", "p">>
                             ELSE LaunchArgs.staging_prefix]
    /\ launcher = DatabricksPySparkStepLauncher(resource_config)
    /\ databricks_config \in [storage : SUBSET StorageKeys,
                              secrets : SeqsUpTo(SecretNames, MaxSecrets)]
    /\ runtime = NotSetUp

NextSetup ==
    \/ SetupStorage
    \/ StorageSecretFails
    \/ ExportSecret
    \/ EnvironmentSecretFails

SpecSetup == InitSetup /\ [][NextSetup]_vars

\* ------------------------------------------------------------ properties

\* the positions lo..hi, in order
Positions(lo, hi) == [i \in 1..(hi - lo + 1) |-> lo + i - 1]

\* the position of the first sentinel after the first k records, or one past
\* the end of the list when there is none
FirstSentinelAfter(records, k) ==
    IF \E i \in (k + 1)..Len(records) : records[i] = "S"
    THEN CHOOSE i \in (k + 1)..Len(records) :
            /\ records[i] = "S"
            /\ \A j \in (k + 1)..(i - 1) : records[j] # "S"
    ELSE Len(records) + 1

\* the records after the first k, up to but excluding the first sentinel
RangeRead(records, k) == Positions(k + 1, FirstSentinelAfter(records, k) - 1)

CarriesEvent(records, i) == records[i] = "E"

\* the domain events carried by the records at the positions s
EventsAt(records, s) == SelectSeq(s, LAMBDA i : CarriesEvent(records, i))

OffsetAfter(records, k) ==
    IF FirstSentinelAfter(records, k) <= Len(records) THEN LogsDone ELSE Len(records)

StrictlyIncreasing(s) == \A i, j \in 1..Len(s) : i < j => s[i] < s[j]

\* C2: across the read cycles of one recovery, no record is forwarded to the
\* caller twice and events are forwarded in the order of their records: the
\* events yielded, followed by those of the batch being yielded, are record
\* positions of the log in strictly increasing order, each carrying an event.
C2_NoDuplicateInOrder ==
    LET forwarded == yielded \o new_events
    IN  /\ StrictlyIncreasing(forwarded)
        /\ \A i \in 1..Len(forwarded) :
              /\ forwarded[i] \in 1..Len(log)
              /\ CarriesEvent(log, forwarded[i])

\* C2 witness: events of two different read cycles have been yielded
C2_Witness ==
    /\ yielded = <<1, 3>>
    /\ log = <<"E", "L", "E">>
    /\ cycles >= 3
    /\ Len(emitted) = 3

\* C3 as stated: a read cycle started at offset k, 0 <= k <= length, returns
\* exactly the records after the first k up to but excluding the first
\* sentinel, and the new offset is the length or the terminal marker.
C3_AsStated ==
    (pc = "returned" /\ answer = "ok" /\ gne_offset >= 0)
        => /\ new_events = RangeRead(log, gne_offset)
           /\ processed_records = OffsetAfter(log, gne_offset)

\* C3 as amended: the batch returned holds the domain events of exactly those
\* records of that range that carry one, in log order (a record whose
\* dagster_event is empty is counted in the offset but is not returned); no
\* record of the first k is returned; the new offset is the length when the
\* range holds no sentinel and the terminal marker otherwise; at k = length
\* the batch is empty and the offset is k again.
C3_ReadCycle ==
    (pc = "returned" /\ answer = "ok" /\ gne_offset >= 0)
        => /\ new_events = EventsAt(log, RangeRead(log, gne_offset))
           /\ \A i \in 1..Len(new_events) : new_events[i] > gne_offset
           /\ processed_records = OffsetAfter(log, gne_offset)
           /\ gne_offset = Len(log)
                => (new_events = <<>> /\ processed_records = gne_offset)

\* C3 witness: a cycle started in the middle of a log returned the one event
\* after its offset and skipped the record without an event
C3_Witness ==
    /\ pc = "returned"
    /\ answer = "ok"
    /\ log = <<"E", "L", "E">>
    /\ gne_offset = 1
    /\ new_events = <<3>>
    /\ processed_records = 3

\* a list of N records: N-1 records that are not the sentinel, then the sentinel
EndsInSentinel(records) ==
    /\ Len(records) >= 1
    /\ FirstSentinelAfter(records, 0) = Len(records)

C5_NotFoundIsEmpty ==
    [][(InRead /\ answer' \in {"not_found", "empty"})
          => /\ pc' = AfterReturn(pc)
             /\ new_events' = <<>>
             /\ processed_records' = gne_offset
             /\ cur_retries' = cur_retries
             /\ outcome' = "none"
             /\ emitted' = emitted]_vars

\* C5 witness: the not-found answer came on the third attempt of a call
C5_Witness ==
    /\ pc = "returned"
    /\ answer = "not_found"
    /\ fileState = "absent"
    /\ cur_retries = 2
    /\ new_events = <<>>
    /\ processed_records = gne_offset
    /\ outcome = "none"

\* the offset a call at offset k slices the list at (k = -1: the last record)
SliceAt(records, k) == IF k < 0 THEN IF Len(records) = 0 THEN 0 ELSE Len(records) - 1 ELSE k

\* what a call whose first read succeeds returns on the list records at offset k
FirstTryBatch(records, k) == EventsAt(records, RangeRead(records, SliceAt(records, k)))
FirstTryOffset(records, k) ==
    IF FirstSentinelAfter(records, SliceAt(records, k)) <= Len(records)
    THEN LogsDone
    ELSE k + (Len(records) - SliceAt(records, k))

\* C6: a call that returns on its third attempt, after two attempts that
\* raised, returns the batch and the offset that a call whose first attempt
\* succeeds returns on the same log at the same offset.
C6_RetriesTransparent ==
    [][(InRead /\ cur_retries = 2 /\ pc' = AfterReturn(pc))
          => /\ answer' = "ok"
                => /\ new_events' = FirstTryBatch(log, processed_records)
                   /\ processed_records' = FirstTryOffset(log, processed_records)
             /\ answer' \in {"not_found", "empty"}
                => /\ new_events' = <<>>
                   /\ processed_records' = processed_records]_vars

\* C6 witness: two failed attempts, then a batch of two events
C6_Witness ==
    /\ pc = "returned"
    /\ cur_retries = 2
    /\ answer = "ok"
    /\ log = <<"L", "E", "E">>
    /\ gne_offset = 1
    /\ new_events = <<2, 3>>
    /\ processed_records = 3

\* C7: a call whose attempts raise three times in a row raises the last of
\* the three errors, makes no fourth attempt and returns nothing: the
\* caller's offset and batch are not assigned.
C7_ThirdFailureRaises ==
    /\ [](cur_retries <= MaxRetries)
    /\ [](cur_retries = MaxRetries
            => /\ pc = "raised"
               /\ outcome = "ReadError"
               /\ raised = MaxRetries
               /\ answer \in {"error", "scan_error"})
    /\ [][cur_retries' = MaxRetries /\ cur_retries # MaxRetries
            => /\ processed_records' = processed_records
               /\ new_events' = new_events
               /\ pc' = "raised"]_vars
    /\ [][cur_retries = MaxRetries
            => UNCHANGED <<cur_retries, answer, processed_records, new_events, pc,
                           outcome, raised, emitted>>]_vars

\* C7 witness: the third attempt of a call on a written log has raised
C7_Witness ==
    /\ pc = "raised"
    /\ outcome = "ReadError"
    /\ cur_retries = MaxRetries
    /\ raised = MaxRetries
    /\ fileState = "written"
    /\ Len(log) = 2
    /\ processed_records = 0
    /\ emitted = <<1, 1>>

\* the events of the records counted by offset p (all those before the
\* sentinel when p is the terminal marker)
Delivered(p) ==
    IF p = LogsDone
    THEN EventsAt(log, Positions(1, FirstSentinelAfter(log, 0) - 1))
    ELSE EventsAt(log, Positions(1, p))

Timeouts == {"JobTimeout", "LogsTimeout"}

\* how the iterator can end: normally only after the run succeeded and the
\* sentinel was read, with exactly the events of the records before the
\* sentinel yielded in log order, each once; with a timeout only at a check
\* that finds the elapsed time above the maximum wait; otherwise with a failed
\* run, a failed status query, three failed read attempts or an interrupt
EndingsClassified ==
    /\ outcome = "ended"
          => /\ pc = "done"
             /\ jobState = "succeeded"
             /\ EndsInSentinel(log)
             /\ new_events = <<>>
             /\ yielded = EventsAt(log, Positions(1, Len(log) - 1))
    /\ outcome \in Timeouts => clock > MaxWait
    /\ outcome = "JobFailed" => jobState = "failed"
    /\ outcome = "ReadError" => cur_retries = MaxRetries
    /\ outcome \in {"none", "ended", "JobFailed", "ReadError", "Interrupted",
                    "RemoteServiceError"} \cup Timeouts
    /\ (pc \in {"done", "raised"}) = (outcome # "none")

PollErrors == {"JobFailed", "JobTimeout", "RemoteServiceError"}

\* C8: in phase A every call of poll_run_state is followed by exactly one call
\* of get_new_events, whether it returned or raised; when the exception of
\* poll_run_state ends the sequence, the events read in that tick have all
\* been yielded before.
C8_ReadCycleEveryTick ==
    /\ cycles >= polls
    /\ pc \in {"A_sleep", "A_poll", "A_read", "A_yield"} => cycles = polls
    /\ pending # "none" => cycles = polls
    /\ outcome \in PollErrors
          => /\ cycles = polls
             /\ new_events = <<>>
             /\ yielded = Delivered(processed_records)

\* C8 witness: the first status query raised because the run had failed, and
\* the two events read in that tick were yielded before the error
C8_Witness ==
    /\ outcome = "JobFailed"
    /\ polls = 1
    /\ cycles = 1
    /\ pc = "raised"
    /\ yielded = <<1, 2>>

\* C9: once poll_run_state has raised the job timeout (the run still running
\* and the elapsed time above the maximum wait), there is no further sleep,
\* status query or phase B, and the sequence ends with the job-timeout error
\* (unless an execution interrupt ends it first).
C9_AsStated ==
    pending = "JobTimeout"
        => /\ pc \in {"A_read", "A_yield", "raised"}
           /\ clock = polls
           /\ clock > MaxWait
           /\ pc = "raised" => outcome \in {"JobTimeout", "Interrupted"}

PhaseB == {"B_check", "B_read", "B_yield", "B_sleep"}

\* C10: phase B makes no status query; once the terminal marker is observed
\* it makes no further read cycle and raises no timeout; it starts a read
\* cycle only while the time elapsed since the start of monitoring is within
\* the maximum wait, and raises the log-availability timeout at the first
\* check that finds it exceeded, so the number of its cycles is bounded.
C10_PhaseB ==
    /\ [][(pc \in PhaseB) => (polls' = polls)]_vars
    /\ [][(pc \in PhaseB /\ processed_records = LogsDone)
            => /\ cycles' = cycles
               /\ processed_records' = LogsDone
               /\ outcome' # "LogsTimeout"]_vars
    /\ [][(pc = "B_check" /\ pc' # "B_check")
            => \/ (processed_records = LogsDone /\ outcome' = "ended")
               \/ (processed_records # LogsDone /\ clock > MaxWait
                     /\ outcome' = "LogsTimeout")
               \/ (processed_records # LogsDone /\ clock <= MaxWait
                     /\ pc' = "B_read" /\ cycles' = cycles + 1)]_vars
    /\ [](outcome = "LogsTimeout"
            => /\ clock > MaxWait
               /\ processed_records # LogsDone
               /\ done)
    /\ [](pc \in {"B_read", "B_yield"} => clock <= MaxWait)
    /\ [](clock <= MaxWait + 1)
    /\ [](cycles <= polls + MaxWait + 1)

\* C10 witness: the run succeeded, phase B read the log twice without seeing
\* the sentinel and then raised the log-availability timeout
C10_Witness ==
    /\ outcome = "LogsTimeout"
    /\ jobState = "succeeded"
    /\ polls = 1
    /\ cycles = 3
    /\ processed_records # LogsDone

\* C11 as stated: the time consumed in phase A is not charged against phase
\* B, so the log-availability timeout is raised only once phase B itself has
\* waited longer than the maximum wait.
C11_AsStated ==
    outcome = "LogsTimeout" => clock - polls > MaxWait

\* C11 as amended: phase B measures its deadline from the single start taken
\* before phase A, so the time consumed in phase A is charged against phase
\* B: phase B starts a read cycle only while the total elapsed
\* time is within the maximum wait, and when it raises the timeout the total
\* elapsed time is above the maximum wait while phase B itself has waited
\* less than that.
C11_SharedBudget ==
    /\ pc \in {"B_read", "B_yield"} => clock <= MaxWait
    /\ outcome = "LogsTimeout"
          => /\ clock = MaxWait + 1
             /\ polls >= 1
             /\ clock - polls <= MaxWait

\* C11 witness: phase A took two poll intervals, phase B waited one and timed out
C11_Witness ==
    /\ outcome = "LogsTimeout"
    /\ polls = 2
    /\ clock = 3
    /\ cycles = 3
    /\ jobState = "succeeded"

\* C12: when the terminal marker was observed in phase A by the tick in which
\* the run is seen succeeded, phase B ends at its first loop test: it makes
\* no read cycle and no sleep, the events before the sentinel are exactly
\* those yielded, and no timeout is raised, whatever the elapsed time.
C12_SentinelSeenInPhaseA ==
    /\ [][(pc = "A_yield" /\ pc' = "B_check")
            => (cycles' = polls' /\ clock' = polls')]_vars
    /\ [][(pc = "B_check" /\ cycles = polls /\ processed_records = LogsDone
             /\ pc' # pc)
            => /\ pc' = "done"
               /\ outcome' = "ended"
               /\ cycles' = cycles
               /\ clock' = clock
               /\ yielded' = yielded]_vars
    /\ []((outcome = "ended" /\ cycles = polls)
            => /\ clock = polls
               /\ EndsInSentinel(log)
               /\ yielded = EventsAt(log, Positions(1, Len(log) - 1)))
    /\ []((pc \in {"B_read", "B_yield", "B_sleep"} \/ outcome = "LogsTimeout")
            => (cycles > polls \/ processed_records # LogsDone))

\* C12 witness: the run was seen running for two ticks and succeeded at the
\* third, where the sentinel was read after two events; phase B read nothing
C12_Witness ==
    /\ outcome = "ended"
    /\ polls = 3
    /\ cycles = 3
    /\ clock = 3
    /\ log = <<"E", "E", "S">>
    /\ yielded = <<1, 2>>

Errors == {"JobFailed", "JobTimeout", "LogsTimeout", "ReadError",
           "RemoteServiceError", "Interrupted"}

\* C13: a failed run, a job timeout, a log-availability timeout and a read
\* whose retries are exhausted each end the sequence with an error (which,
\* when the read of the same tick fails too, is the read error): once one has
\* happened the iterator goes on to raising and never ends normally; it ends
\* normally only with the terminal marker observed.
C13_FatalEndsWithError ==
    /\ [](outcome = "ended"
            => /\ processed_records = LogsDone
               /\ pending = "none"
               /\ cur_retries < MaxRetries)
    /\ []((pc = "raised") = (outcome \in Errors))
    /\ [](pending # "none" => pc \in {"A_read", "A_yield", "raised"})
    /\ [](cur_retries = MaxRetries => (pc = "raised" /\ outcome = "ReadError"))
    /\ [][(pending # "none") => (pending' = pending)]_vars
    /\ [][(outcome \in Errors) => (outcome' = outcome)]_vars
    /\ (pending # "none") ~> (pc = "raised")

\* C13 witness: the run had failed and the read of that tick failed three
\* times; the sequence ended with an error
C13_Witness ==
    /\ pending = "JobFailed"
    /\ cur_retries = MaxRetries
    /\ pc = "raised"
    /\ outcome = "ReadError"
    /\ yielded = <<1>>

Sleeps == {"A_sleep", "B_sleep"}

\* C18: the sleep of phase A and the sleep of phase B are cancellation
\* points: an interrupt can be raised at each of them, and when it is, the
\* iterator raises at once, with no further status query, no further read
\* cycle and no further event, and does nothing afterwards.
C18_SleepIsCancellationPoint ==
    /\ [](pc \in Sleeps => ENABLED Interrupt)
    /\ [][(pc \in Sleeps /\ (outcome' = "Interrupted" \/ pending' = "Interrupted"))
            => /\ pc' = "raised"
               /\ outcome' = "Interrupted"
               /\ pending' = pending
               /\ polls' = polls
               /\ cycles' = cycles
               /\ clock' = clock
               /\ yielded' = yielded
               /\ processed_records' = processed_records]_vars
    /\ [][(outcome = "Interrupted") => UNCHANGED iterVars]_vars

\* C18 witness: interrupted in the sleep of phase B after its first read cycle
C18_Witness ==
    /\ outcome = "Interrupted"
    /\ pc = "raised"
    /\ done
    /\ cycles = polls + 1
    /\ answer \in {"ok", "empty", "not_found"}
    /\ new_events = <<>>

\* C18 witness: interrupted in the sleep of phase A, after one full tick
C18_WitnessPhaseA ==
    /\ outcome = "Interrupted"
    /\ pc = "raised"
    /\ ~done
    /\ pending = "none"
    /\ polls = 1
    /\ cycles = 1
    /\ answer \in {"ok", "empty", "not_found"}
    /\ new_events = <<>>

\* C20: the offset only moves forward or jumps to the terminal marker: while
\* non-negative it never decreases and never exceeds the length of the log,
\* and once it is the terminal marker it stays the terminal marker.
C20_OffsetMonotone ==
    /\ [](processed_records = LogsDone
            \/ (processed_records >= 0 /\ processed_records <= Len(log)))
    /\ [][(processed_records >= 0)
            => (processed_records' >= processed_records
                   \/ processed_records' = LogsDone)]_vars
    /\ [][(processed_records = LogsDone) => (processed_records' = LogsDone)]_vars

\* C20 witness: a read cycle started from the terminal marker, after the
\* offset had moved over three records, and returned the terminal marker
C20_Witness ==
    /\ processed_records = LogsDone
    /\ gne_offset = LogsDone
    /\ Len(log) = MaxLogLen
    /\ cycles = 2
    /\ answer = "ok"
    /\ pc = "A_yield"
    /\ yielded = <<1, 2>>

\* the path of the n-th artifact of the launch of step a[0] of run r
ExpectedUpload(n) ==
    <<"dbfs:", "/", "/", "/", "s", "/", "r", "/", "a", "_", "_", "0", "_", "_", "/">>
        \o << <<"databricks_step_main.py", "code.zip", "step_run_ref.pkl",
                "config.pkl">>[n] >>

\* C14: the uploads are made in the order entry point, code zip, step
\* reference, config, each to a path of its own, and the job is submitted
\* only after all four succeeded: after a failed upload no job is submitted.
C14_UploadsThenSubmit ==
    /\ [](/\ Len(uploads) <= 4
          /\ \A n \in 1..Len(uploads) : uploads[n] = ExpectedUpload(n)
          /\ \A m, n \in 1..Len(uploads) : m # n => uploads[m] # uploads[n])
    /\ []((submits > 0 \/ databricks_run_id # None \/ lpc \notin {"upload", "ended"})
            => Len(uploads) = 4)
    /\ [](launch_outcome = "UploadError"
            => /\ Len(uploads) < 4
               /\ submits = 0
               /\ databricks_run_id = None
               /\ lpc = "ended")
    /\ [][(launch_outcome = "UploadError") => UNCHANGED vars]_vars

\* C14 witness: the job was submitted, after the four uploads
C14_Witness ==
    /\ submits = 1
    /\ Len(uploads) = 4
    /\ databricks_run_id # None
    /\ lpc = "iterating"
    /\ pc = "A_sleep"
    /\ clock = 0

\* C15: the submission is attempted once: when it fails the launch ends at
\* once with the submission error, without a second attempt, a status poll
\* or a read of the event log.
C15_SubmitOnce ==
    /\ [](submits <= 1)
    /\ [](launch_outcome = "SubmissionError"
            => /\ submits = 1
               /\ lpc = "ended"
               /\ databricks_run_id = None
               /\ pc = "idle"
               /\ polls = 0
               /\ cycles = 0
               /\ log_retrievals = 0)
    /\ [][(lpc = "submit" /\ submits' # submits /\ databricks_run_id' = None)
            => (lpc' = "ended" /\ launch_outcome' = "SubmissionError")]_vars
    /\ [][(launch_outcome = "SubmissionError") => UNCHANGED vars]_vars
    /\ []((polls > 0 \/ cycles > 0) => (submits = 1 /\ databricks_run_id # None))

\* C15 witness: the submission failed after the four uploads
C15_Witness ==
    /\ launch_outcome = "SubmissionError"
    /\ submits = 1
    /\ Len(uploads) = 4
    /\ lpc = "ended"

\* C16 as stated: with wait_for_logs set the log retrieval runs on every exit
\* path of the launch, and without it never.
C16_AsStated ==
    lpc = "ended" => log_retrievals = (IF wait_for_logs THEN 1 ELSE 0)

\* C16 as amended: with wait_for_logs set the log retrieval runs once on
\* every exit path of the launch that follows the submission of the job
\* (normal end, failed run, timeouts, read error, interrupt) and does not run
\* when an upload or the submission failed; without wait_for_logs it never
\* runs.
C16_RetrievalAfterSubmit ==
    /\ log_retrievals <= 1
    /\ ~wait_for_logs => log_retrievals = 0
    /\ log_retrievals = 1 => (lpc = "ended" /\ pc \in {"done", "raised"})
    /\ (lpc = "ended" /\ wait_for_logs)
          => ((log_retrievals = 1) = (databricks_run_id # None))
    /\ (lpc = "ended" /\ databricks_run_id = None)
          => launch_outcome \in {"UploadError", "SubmissionError"}
    /\ (lpc = "ended" /\ databricks_run_id # None)
          => (pc \in {"done", "raised"}
                 /\ outcome \in {"ended", "JobFailed", "JobTimeout", "LogsTimeout",
                                 "ReadError", "RemoteServiceError", "Interrupted"})

\* C16 witness: the iterator was interrupted and the logs were retrieved
C16_Witness ==
    /\ lpc = "ended"
    /\ wait_for_logs
    /\ outcome = "Interrupted"
    /\ log_retrievals = 1

RECURSIVE Escaped(_)
\* the step key with each bracket replaced by two underscores
Escaped(key) ==
    IF key = <<>> THEN <<>>
    ELSE (IF Head(key) \in {"[", "]"} THEN <<"_", "_">> ELSE <<Head(key)>>)
            \o Escaped(Tail(key))

\* the file name without its directories
LastComponent(name) ==
    LET slashes == {i \in 1..Len(name) : name[i] = "/"}
    IN  IF slashes = {} THEN name
        ELSE SubSeq(name, (CHOOSE i \in slashes : \A j \in slashes : j <= i) + 1,
                    Len(name))

Remainder(a) ==
    a.staging_prefix \o <<"/">> \o a.run_id \o <<"/">> \o Escaped(a.step_key)
        \o <<"/">> \o LastComponent(a.filename)

\* C19: the two renderings of a path are the fixed prefixes "dbfs://" and
\* "/dbfs/" followed by the same remainder
\* staging_prefix/run_id/escaped step key/file name, in which each bracket of
\* the step key is replaced by two underscores (a[0] becomes a__0__).
C19_PathsShareRemainder ==
    lpc = "rendered"
       => /\ path_out.dbfs = <<"dbfs:", "/", "/">> \o Remainder(path_args)
          /\ path_out.internal = <<"/", "dbfs", "/">> \o Remainder(path_args)
          /\ SubSeq(path_out.dbfs, 4, Len(path_out.dbfs))
                = SubSeq(path_out.internal, 4, Len(path_out.internal))
          /\ \A i \in 1..Len(path_out.dbfs) : path_out.dbfs[i] \notin {"[", "]"}
          /\ (path_args = LaunchArgs)
                => path_out.dbfs = <<"dbfs:", "/", "/", "/", "s", "/", "r", "/",
                                     "a", "_", "_", "0", "_", "_", "/", "x.bin">>

\* C19 witness: the paths of file x.bin of step a[0] of run r were rendered
C19_Witness ==
    /\ lpc = "rendered"
    /\ path_args = LaunchArgs
    /\ path_out.internal = <<"/", "dbfs", "/", "/", "s", "/", "r", "/",
                             "a", "_", "_", "0", "_", "_", "/", "x.bin">>

\* C23: every log record is given to emit_dagster_record at most once in a
\* recovery, also when a get_new_events cycle is retried after an error
\* raised part-way through the scan of a batch.
C23_AsStated ==
    \A i, j \in 1..Len(emitted) : i # j => emitted[i] # emitted[j]

\* C24: when the status check of a tick of phase A raises the run failure or
\* the job timeout and the read cycle of the finally clause of that tick
\* raises too, the error that ends the sequence is the one of the status
\* check.
C24_AsStated ==
    (pc = "raised" /\ pending \in {"JobFailed", "JobTimeout"}
        /\ cur_retries = MaxRetries)
       => outcome = pending

\* the package path entries given in the resource config
GivenPaths == {k \in {pipeline_path, job_path} : k \in DOMAIN resource_config}

\* C21: the constructor accepts the config exactly when one of
\* local_pipeline_package_path and local_dagster_job_package_path is given
\* (here: with a non-empty path and an absolute staging prefix), and the one
\* given becomes the code root.
C21_AsStated ==
    (/\ lpc \in {"constructed", "rejected"}
     /\ startswith(resource_config.staging_prefix, "/")
     /\ \A k \in GivenPaths : resource_config[k] # <<>>)
       => /\ (lpc = "constructed") = (Cardinality(GivenPaths) = 1)
          /\ lpc = "constructed"
                => \A k \in GivenPaths :
                      launcher.local_dagster_job_package_path = resource_config[k]

Recognized == databricks_config.storage \cap {"s3", "adls2"}

IsPrefix(a, b) == Len(a) <= Len(b) /\ a = SubSeq(b, 1, Len(a))

\* C22 as stated: setup sets up exactly the one recognized storage variant of
\* the binding, fails when there is none, never accepts a binding with more
\* than one, and exports the secrets only after the storage was set up.
C22_AsStated ==
    /\ lpc \in {"setup_environment", "set_up"}
          => (Cardinality(Recognized) = 1 /\ \A v \in Recognized : runtime.storage = <<v>>)
    /\ (Recognized = {} /\ lpc # "setup_storage")
          => (lpc = "failed" /\ runtime.outcome = "NoValidStorage")
    /\ (Cardinality(Recognized) > 1 /\ lpc # "setup_storage") => lpc = "failed"
    /\ runtime.environ # <<>> => runtime.storage # <<>>
    /\ runtime.outcome = "ok" => runtime.environ = databricks_config.secrets

\* C22 as amended: setup sets up at most one storage variant: s3 when the
\* binding has it (also when it has adls2 too, which is then ignored and not
\* rejected), adls2 when it has that and not s3; it fails, exporting
\* nothing, when the binding has neither; the secrets are exported in
\* order, only after the storage was set up, and all of them when setup
\* completes.
C22_FirstVariantSetUp ==
    /\ Len(runtime.storage) <= 1
    /\ runtime.storage # <<>>
          => runtime.storage = (IF "s3" \in databricks_config.storage
                                THEN <<"s3">> ELSE <<"adls2">>)
    /\ \A i \in 1..Len(runtime.storage) : runtime.storage[i] \in Recognized
    /\ (Recognized = {} /\ lpc # "setup_storage")
          => (lpc = "failed" /\ runtime.outcome = "NoValidStorage"
                 /\ runtime.environ = <<>>)
    /\ Recognized # {} => runtime.outcome # "NoValidStorage"
    /\ lpc \in {"setup_environment", "set_up"} => Len(runtime.storage) = 1
    /\ IsPrefix(runtime.environ, databricks_config.secrets)
    /\ runtime.environ # <<>> => runtime.storage # <<>>
    /\ (runtime.outcome = "ok") = (lpc = "set_up")
    /\ runtime.outcome = "ok" => runtime.environ = databricks_config.secrets

\* C22 witness: a binding with both s3 and adls2 was accepted, s3 was set up
\* and two secrets were exported
C22_Witness ==
    /\ databricks_config.storage = {"s3", "adls2"}
    /\ databricks_config.secrets = <<"A", "B">>
    /\ lpc = "set_up"
    /\ runtime.storage = <<"s3">>
    /\ runtime.environ = <<"A", "B">>

====
